---- MODULE Spec2Model ----
(***************************************************************************)
(* Panchayat election system (src/src/12-panchayat-election.js).           *)
(*                                                                         *)
(* createElection(candidates) closes over three private values: the votes  *)
(* object, the registered set and the votersWhoVoted set.  The model keeps *)
(* them as variables next to the candidate list, and records the last call *)
(* made on the session (its arguments, the handlers it invoked and the     *)
(* value it returned) so that the outcome of every call is observable.     *)
(***************************************************************************)
EXTENDS Integers, Sequences, FiniteSets, TLC

(* Longest candidate list handed to createElection. *)
MaxCands == 3

----------------------------------------------------------------------------
(* JavaScript values, as far as the election code looks at them.           *)

Str(s) == [t |-> "string", s |-> s, n |-> 0]
Num(n) == [t |-> "number", s |-> "", n |-> n]
NaN == [t |-> "NaN", s |-> "", n |-> 0]
Undefined == [t |-> "undefined", s |-> "", n |-> 0]
Null == [t |-> "null", s |-> "", n |-> 0]
Bool(b) == [t |-> "boolean", b |-> b]

(* typeof v: NaN is a number, null is an object. *)
TypeOf(v) ==
  CASE v.t = "NaN" -> "number"
    [] v.t = "null" -> "object"
    [] OTHER -> v.t

(* a < k for a value a with typeof a === "number": every comparison with   *)
(* NaN is false.                                                           *)
NumLess(a, k) == a.t = "number" /\ a.n < k

----------------------------------------------------------------------------
(* Inputs.                                                                 *)

(* Candidate objects { id, name, party }.  Two of them carry the same id,  *)
(* one carries an empty (falsy) id.                                        *)
CandidatePool ==
  { [id |-> "C1", name |-> "Ram", party |-> "Janata"],
    [id |-> "C2", name |-> "Sita", party |-> "Lok"],
    [id |-> "C1", name |-> "Shyam", party |-> "Lok"],
    [id |-> "", name |-> "Nota", party |-> ""] }

Injective(s) == \A i, j \in 1..Len(s) : s[i] = s[j] => i = j

(* The candidate arrays: every list of distinct pool objects up to MaxCands.*)
CandidateLists ==
  UNION { { s \in [1..k -> CandidatePool] : Injective(s) } : k \in 0..MaxCands }

VoterIdStrings == {"V1", "V2"}

(* The voter argument of registerVoter: null, a truthy primitive, or an    *)
(* object { id, name, age }.  The objects are every string id with every   *)
(* age below, one with a number for an id and one without a name.          *)
VoterAgeValues == {Num(17), Num(18), NaN, Str("25")}

Voter(id, name, age) == [kind |-> "object", id |-> id, name |-> name, age |-> age]

VoterInputs ==
  { [kind |-> k, id |-> Undefined, name |-> Undefined, age |-> Undefined] :
      k \in {"null", "primitive"} }
  \cup { Voter(Str(i), Str("Mohan"), a) : i \in VoterIdStrings, a \in VoterAgeValues }
  \cup { Voter(Num(7), Str("Mohan"), Num(18)), Voter(Str("V1"), Undefined, Num(18)) }

(* A handler argument of castVote: a function returning its argument, or   *)
(* no function at all.                                                     *)
Handlers == {"identity", "none"}

(* The arguments of castVote: every string voter id with every candidate   *)
(* id and both handlers, or either one of them, supplied; and a voter id   *)
(* that is not a string.                                                   *)
CastCandidateIds == {"C1", "C2", ""}

HandlerPairs ==
  { hh \in Handlers \X Handlers : hh[1] = "identity" \/ hh[2] = "identity" }

CastInputs ==
  { [voterId |-> Str(v), candidateId |-> c, onSuccess |-> hh[1], onError |-> hh[2]] :
      v \in VoterIdStrings, c \in CastCandidateIds, hh \in HandlerPairs }
  \cup
  { [voterId |-> Num(7), candidateId |-> c,
     onSuccess |-> "identity", onError |-> "identity"] : c \in CastCandidateIds }

(* The sortFn argument of getResults: absent, a non-function value, or one *)
(* of the comparators (a, b) => a.votes - b.votes and                      *)
(* (a, b) => a.party.localeCompare(b.party).                               *)
SortFns == {"undefined", "notFunction", "votesAsc", "byParty"}

----------------------------------------------------------------------------
VARIABLES
  candidates,      \* the candidates array closed over by the session
  votes,           \* the votes object: candidate id -> count
  registered,      \* Set of registered voter ids
  votersWhoVoted,  \* Set of voter ids that have voted
  op,              \* name of the last method called
  args,            \* its arguments
  calls,           \* the handler invocations it made, in order
  ret,             \* the value it returned
  everSucceeded,   \* history: voter ids whose castVote reached onSuccess
  trueReturns      \* history: per voter id, registerVoter calls that returned true

vars == <<candidates, votes, registered, votersWhoVoted, op, args, calls, ret,
          everSucceeded, trueReturns>>

session == <<candidates, votes, registered, votersWhoVoted>>

----------------------------------------------------------------------------
(* createElection: the closure state right after construction.  A          *)
(* non-array argument is replaced by the empty array; every candidate with *)
(* a truthy id gets the count 0 (a repeated id is simply set to 0 again).  *)

CandidateArgs ==
  { [isArray |-> TRUE, items |-> s] : s \in CandidateLists }
  \cup { [isArray |-> FALSE, items |-> <<>>] }

createElection(arg) ==
  LET cands == IF arg.isArray THEN arg.items ELSE <<>>
      keys == { cands[i].id : i \in { j \in 1..Len(cands) : cands[j].id # "" } }
  IN [candidates |-> cands,
      votes |-> [k \in keys |-> 0],
      registered |-> {},
      votersWhoVoted |-> {}]

----------------------------------------------------------------------------
(* registerVoter(voter)                                                    *)

(* !voter: null is falsy, a non-empty primitive and an object are truthy. *)
Falsy(voter) == voter.kind = "null"

(* voter.id, voter.name, voter.age: undefined on a primitive. *)
Field(voter, f) == IF voter.kind = "object" THEN voter[f] ELSE Undefined

(* registered.has(id): the set only ever holds strings. *)
Has(set, id) == id.t = "string" /\ id.s \in set

(* Seeded fault: the registered.has(voter.id) test is left out. *)
registerVoter_noDuplicateCheck(reg, voter) ==
  IF \/ Falsy(voter)
     \/ TypeOf(Field(voter, "id")) # "string"
     \/ TypeOf(Field(voter, "name")) # "string"
     \/ TypeOf(Field(voter, "age")) # "number"
     \/ NumLess(Field(voter, "age"), 18)
  THEN [ret |-> Bool(FALSE), registered |-> reg]
  ELSE [ret |-> Bool(TRUE), registered |-> reg \cup {Field(voter, "id").s}]

registerVoter(reg, voter) ==
  IF \/ Falsy(voter)
     \/ TypeOf(Field(voter, "id")) # "string"
     \/ TypeOf(Field(voter, "name")) # "string"
     \/ TypeOf(Field(voter, "age")) # "number"
     \/ NumLess(Field(voter, "age"), 18)
     \/ Has(reg, Field(voter, "id"))
  THEN [ret |-> Bool(FALSE), registered |-> reg]
  ELSE [ret |-> Bool(TRUE), registered |-> reg \cup {Field(voter, "id").s}]

----------------------------------------------------------------------------
(* castVote(voterId, candidateId, onSuccess, onError)                      *)

(* Calling a handler: what it returns for the argument it is given.  A     *)
(* handler that is not a function is replaced by () => { }.                *)
Invoke(h, arg) ==
  IF h = "identity" THEN arg ELSE Undefined

Receipt(voterId, candidateId) ==
  [t |-> "receipt", voterId |-> voterId, candidateId |-> candidateId]

(* votes[c.id] || 0 *)
CountOf(vs, id) == IF id \in DOMAIN vs THEN vs[id] ELSE 0

(* return onError(reason): one invocation, the state as it was. *)
Reject(vs, vwv, onError, reason) ==
  [votes |-> vs, votersWhoVoted |-> vwv,
   calls |-> << [handler |-> "onError", arg |-> Str(reason)] >>,
   ret |-> Invoke(onError, Str(reason))]

(* Seeded fault: votes[candidateId] = 1 in place of votes[candidateId] += 1. *)
Accept_assignsOne(vs, vwv, voterId, candidateId, onSuccess) ==
  [votes |-> [vs EXCEPT ![candidateId] = 1],
   votersWhoVoted |-> vwv \cup {voterId.s},
   calls |-> << [handler |-> "onSuccess",
                 arg |-> Receipt(voterId, candidateId)] >>,
   ret |-> Invoke(onSuccess, Receipt(voterId, candidateId))]

(* The successful outcome: the count raised, the voter remembered, one     *)
(* onSuccess invocation with the receipt.                                  *)
Accept(vs, vwv, voterId, candidateId, onSuccess) ==
  [votes |-> [vs EXCEPT ![candidateId] = @ + 1],
   votersWhoVoted |-> vwv \cup {voterId.s},
   calls |-> << [handler |-> "onSuccess",
                 arg |-> Receipt(voterId, candidateId)] >>,
   ret |-> Invoke(onSuccess, Receipt(voterId, candidateId))]

(* Seeded fault: votersWhoVoted.add(voterId) is left out. *)
castVote_forgetsVoter(vs, reg, vwv, voterId, candidateId, onSuccess, onError) ==
  IF ~Has(reg, voterId) THEN Reject(vs, vwv, onError, "Voter not registered")
  ELSE IF candidateId \notin DOMAIN vs
    THEN Reject(vs, vwv, onError, "Candidate does not exist")
  ELSE IF Has(vwv, voterId)
    THEN Reject(vs, vwv, onError, "Voter has already voted")
  ELSE [Accept(vs, vwv, voterId, candidateId, onSuccess)
          EXCEPT !.votersWhoVoted = vwv]

(* Seeded fault: the votersWhoVoted.has(voterId) test is left out. *)
castVote_noVotedCheck(vs, reg, vwv, voterId, candidateId, onSuccess, onError) ==
  IF ~Has(reg, voterId) THEN Reject(vs, vwv, onError, "Voter not registered")
  ELSE IF candidateId \notin DOMAIN vs
    THEN Reject(vs, vwv, onError, "Candidate does not exist")
  ELSE Accept(vs, vwv, voterId, candidateId, onSuccess)

(* Seeded fault: the already-voted test comes before the candidate test. *)
castVote_votedFirst(vs, reg, vwv, voterId, candidateId, onSuccess, onError) ==
  IF ~Has(reg, voterId) THEN Reject(vs, vwv, onError, "Voter not registered")
  ELSE IF Has(vwv, voterId)
    THEN Reject(vs, vwv, onError, "Voter has already voted")
  ELSE IF candidateId \notin DOMAIN vs
    THEN Reject(vs, vwv, onError, "Candidate does not exist")
  ELSE Accept(vs, vwv, voterId, candidateId, onSuccess)

(* Seeded fault: the voter is remembered before the candidate is tested. *)
castVote_marksEarly(vs, reg, vwv, voterId, candidateId, onSuccess, onError) ==
  IF ~Has(reg, voterId) THEN Reject(vs, vwv, onError, "Voter not registered")
  ELSE IF Has(vwv, voterId)
    THEN Reject(vs, vwv, onError, "Voter has already voted")
  ELSE IF candidateId \notin DOMAIN vs
    THEN Reject(vs, vwv \cup {voterId.s}, onError, "Candidate does not exist")
  ELSE Accept(vs, vwv, voterId, candidateId, onSuccess)

(* Seeded fault: the first test calls onError without returning. *)
castVote_fallsThrough(vs, reg, vwv, voterId, candidateId, onSuccess, onError) ==
  LET first == IF ~Has(reg, voterId)
               THEN << [handler |-> "onError", arg |-> Str("Voter not registered")] >>
               ELSE << >>
      rest == IF candidateId \notin DOMAIN vs
                THEN Reject(vs, vwv, onError, "Candidate does not exist")
              ELSE IF Has(vwv, voterId)
                THEN Reject(vs, vwv, onError, "Voter has already voted")
              ELSE Accept(vs, vwv, voterId, candidateId, onSuccess)
  IN [rest EXCEPT !.calls = first \o @]

(* Seeded fault: the votes.hasOwnProperty(candidateId) test is left out,   *)
(* so a vote for an unknown id creates its key.                            *)
castVote_noCandidateCheck(vs, reg, vwv, voterId, candidateId, onSuccess, onError) ==
  IF ~Has(reg, voterId) THEN Reject(vs, vwv, onError, "Voter not registered")
  ELSE IF Has(vwv, voterId)
    THEN Reject(vs, vwv, onError, "Voter has already voted")
  ELSE Accept([k \in DOMAIN vs \cup {candidateId} |-> CountOf(vs, k)],
              vwv, voterId, candidateId, onSuccess)

(* Seeded fault: the registered.has(voterId) test is left out. *)
castVote_noRegisteredCheck(vs, reg, vwv, voterId, candidateId, onSuccess, onError) ==
  IF candidateId \notin DOMAIN vs
    THEN Reject(vs, vwv, onError, "Candidate does not exist")
  ELSE IF Has(vwv, voterId)
    THEN Reject(vs, vwv, onError, "Voter has already voted")
  ELSE Accept(vs, vwv, voterId, candidateId, onSuccess)

castVote(vs, reg, vwv, voterId, candidateId, onSuccess, onError) ==
  IF ~Has(reg, voterId) THEN Reject(vs, vwv, onError, "Voter not registered")
  ELSE IF candidateId \notin DOMAIN vs
    THEN Reject(vs, vwv, onError, "Candidate does not exist")
  ELSE IF Has(vwv, voterId)
    THEN Reject(vs, vwv, onError, "Voter has already voted")
  ELSE Accept(vs, vwv, voterId, candidateId, onSuccess)

----------------------------------------------------------------------------
(* getResults(sortFn)                                                      *)

ResultRecord(vs, c) ==
  [id |-> c.id, name |-> c.name, party |-> c.party, votes |-> CountOf(vs, c.id)]

(* Position of a party name in string order: "" < "Janata" < "Lok". *)
PartyRank(party) ==
  CASE party = "" -> 0
    [] party = "Janata" -> 1
    [] OTHER -> 2

(* The comparator Array.prototype.sort is given: sortFn when it is a       *)
(* function, (a, b) => b.votes - a.votes otherwise.                        *)
Compare(sortFn, a, b) ==
  CASE sortFn = "votesAsc" -> a.votes - b.votes
    [] sortFn = "byParty" -> PartyRank(a.party) - PartyRank(b.party)
    [] OTHER -> b.votes - a.votes

(* Seeded fault: an unstable sort, x goes in front of its equals. *)
Insert_beforeEquals(sorted, x, sortFn) ==
  LET below == { i \in 1..Len(sorted) : Compare(sortFn, sorted[i], x) < 0 }
      p == IF below = {} THEN 0
           ELSE CHOOSE i \in below : \A j \in below : j <= i
  IN SubSeq(sorted, 1, p) \o <<x>> \o SubSeq(sorted, p + 1, Len(sorted))

(* Array.prototype.sort is stable: x, which followed every element of the  *)
(* sorted prefix in the input, goes behind the last element not above it.  *)
Insert(sorted, x, sortFn) ==
  LET notAbove == { i \in 1..Len(sorted) : Compare(sortFn, sorted[i], x) <= 0 }
      p == IF notAbove = {} THEN 0
           ELSE CHOOSE i \in notAbove : \A j \in notAbove : j <= i
  IN SubSeq(sorted, 1, p) \o <<x>> \o SubSeq(sorted, p + 1, Len(sorted))

RECURSIVE Sort(_, _)
Sort(results, sortFn) ==
  IF results = <<>> THEN <<>>
  ELSE Insert(Sort(SubSeq(results, 1, Len(results) - 1), sortFn),
              results[Len(results)], sortFn)

(* Seeded fault: a candidate whose id was already seen is skipped. *)
getResults_skipsRepeatedId(cands, vs, sortFn) ==
  LET first == { i \in 1..Len(cands) : \A j \in 1..(i - 1) : cands[j].id # cands[i].id }
      kept == SelectSeq([i \in 1..Len(cands) |-> i], LAMBDA i : i \in first)
  IN Sort([k \in 1..Len(kept) |-> ResultRecord(vs, cands[kept[k]])], sortFn)

(* Seeded fault: sortFn is ignored, the default order is always used. *)
getResults_ignoresSortFn(cands, vs, sortFn) ==
  Sort([i \in 1..Len(cands) |-> ResultRecord(vs, cands[i])], "undefined")

getResults(cands, vs, sortFn) ==
  Sort([i \in 1..Len(cands) |-> ResultRecord(vs, cands[i])], sortFn)

----------------------------------------------------------------------------
(* getWinner()                                                             *)

(* Seeded fault: r.votes >= maxVotes, the last of the tied wins. *)
RECURSIVE Scan_lastAmongTied(_, _, _, _)
Scan_lastAmongTied(results, i, maxVotes, winner) ==
  IF i > Len(results) THEN winner
  ELSE IF results[i].votes >= maxVotes
    THEN Scan_lastAmongTied(results, i + 1, results[i].votes,
                            [t |-> "object", r |-> results[i]])
    ELSE Scan_lastAmongTied(results, i + 1, maxVotes, winner)

(* for (const r of results) if (r.votes > maxVotes) { ... } *)
RECURSIVE Scan(_, _, _, _)
Scan(results, i, maxVotes, winner) ==
  IF i > Len(results) THEN winner
  ELSE IF results[i].votes > maxVotes
    THEN Scan(results, i + 1, results[i].votes, [t |-> "object", r |-> results[i]])
    ELSE Scan(results, i + 1, maxVotes, winner)

(* Seeded fault: the results.every((r) => r.votes === 0) test is left out. *)
getWinner_noZeroCheck(cands, vs) ==
  LET results == getResults(cands, vs, "undefined")
  IN IF Len(results) = 0 THEN Null ELSE Scan(results, 1, -1, Null)

getWinner(cands, vs) ==
  LET results == getResults(cands, vs, "undefined")
  IN IF Len(results) = 0 \/ \A i \in 1..Len(results) : results[i].votes = 0
     THEN Null
     ELSE Scan(results, 1, -1, Null)

----------------------------------------------------------------------------
(* The session as a state machine.                                         *)

(* History of registerVoter's true returns, counted up to 2. *)
Bump(h, id) == [h EXCEPT ![id] = IF @ < 2 THEN @ + 1 ELSE @]

Init ==
  /\ \E arg \in CandidateArgs :
       LET e == createElection(arg)
       IN /\ candidates = e.candidates
          /\ votes = e.votes
          /\ registered = e.registered
          /\ votersWhoVoted = e.votersWhoVoted
  /\ op = "createElection"
  /\ args = [none |-> TRUE]
  /\ calls = <<>>
  /\ ret = Undefined
  /\ everSucceeded = {}
  /\ trueReturns = [id \in VoterIdStrings |-> 0]

RegisterVoter ==
  \E voter \in VoterInputs :
    LET r == registerVoter(registered, voter)
    IN /\ registered' = r.registered
       /\ op' = "registerVoter"
       /\ args' = [voter |-> voter]
       /\ calls' = <<>>
       /\ ret' = r.ret
       /\ trueReturns' = IF r.ret.b THEN Bump(trueReturns, voter.id.s)
                         ELSE trueReturns
       /\ UNCHANGED <<candidates, votes, votersWhoVoted, everSucceeded>>

CastVote ==
  \E input \in CastInputs :
    LET r == castVote(votes, registered, votersWhoVoted,
                      input.voterId, input.candidateId, input.onSuccess, input.onError)
    IN /\ votes' = r.votes
       /\ votersWhoVoted' = r.votersWhoVoted
       /\ op' = "castVote"
       /\ args' = input
       /\ calls' = r.calls
       /\ ret' = r.ret
       /\ everSucceeded' =
            everSucceeded \cup
              { r.calls[i].arg.voterId.s :
                  i \in { j \in 1..Len(r.calls) : r.calls[j].handler = "onSuccess" } }
       /\ UNCHANGED <<candidates, registered, trueReturns>>

(* Seeded fault: getResults stores the default it reads,                   *)
(* votes[c.id] = votes[c.id] || 0, so a query writes to the votes object.  *)
GetResults_storesDefault ==
  \E sortFn \in SortFns :
    /\ op' = "getResults"
    /\ args' = [sortFn |-> sortFn]
    /\ calls' = <<>>
    /\ ret' = [t |-> "array", a |-> getResults(candidates, votes, sortFn)]
    /\ votes' = [k \in DOMAIN votes \cup { candidates[i].id : i \in 1..Len(candidates) }
                   |-> CountOf(votes, k)]
    /\ UNCHANGED <<candidates, registered, votersWhoVoted, everSucceeded, trueReturns>>

GetResults ==
  \E sortFn \in SortFns :
    /\ op' = "getResults"
    /\ args' = [sortFn |-> sortFn]
    /\ calls' = <<>>
    /\ ret' = [t |-> "array", a |-> getResults(candidates, votes, sortFn)]
    /\ UNCHANGED <<session, everSucceeded, trueReturns>>

GetWinner ==
  /\ op' = "getWinner"
  /\ args' = [none |-> TRUE]
  /\ calls' = <<>>
  /\ ret' = getWinner(candidates, votes)
  /\ UNCHANGED <<session, everSucceeded, trueReturns>>

Next == RegisterVoter \/ CastVote \/ GetResults \/ GetWinner

Spec == Init /\ [][Next]_vars

TypeOK ==
  /\ candidates \in CandidateLists
  /\ DOMAIN votes \subseteq {"C1", "C2"}
  /\ registered \subseteq VoterIdStrings
  /\ votersWhoVoted \subseteq VoterIdStrings

----------------------------------------------------------------------------
(* Properties of the election session.                                     *)

RECURSIVE SumOver(_, _)
SumOver(f, keys) ==
  IF keys = {} THEN 0
  ELSE LET k == CHOOSE x \in keys : TRUE
       IN f[k] + SumOver(f, keys \ {k})

SumVotes == SumOver(votes, DOMAIN votes)

OnError(reason) == << [handler |-> "onError", arg |-> Str(reason)] >>

(* C1: in every reachable state the counts of the votes object add up to   *)
(* the number of voter ids in votersWhoVoted.                              *)
C1_SumEqualsVoted == SumVotes = Cardinality(votersWhoVoted)

(* Two voters have voted, for two different candidate ids. *)
C1_Witness ==
  /\ Cardinality(votersWhoVoted) = 2
  /\ \E a, b \in DOMAIN votes : a # b /\ votes[a] = 1 /\ votes[b] = 1

(* C2 as stated: once castVote has succeeded for a voter, every later      *)
(* castVote for that voter, whatever the candidate id, invokes             *)
(* onError("Voter has already voted").                                     *)
C2_Original ==
  [][ (op' = "castVote" /\ Has(everSucceeded, args'.voterId))
        => calls' = OnError("Voter has already voted") ]_vars

(* C2 amended: once castVote has succeeded for a voter, a later castVote   *)
(* for that voter never invokes onSuccess; it invokes                      *)
(* onError("Voter has already voted") when the candidate id is a key of    *)
(* the votes object and onError("Candidate does not exist") when it is not.*)
C2_Amended ==
  [][ (op' = "castVote" /\ Has(everSucceeded, args'.voterId))
        => calls' = IF args'.candidateId \in DOMAIN votes
                    THEN OnError("Voter has already voted")
                    ELSE OnError("Candidate does not exist") ]_vars

(* A voter whose vote succeeded is turned away on a later vote for a known *)
(* candidate.                                                              *)
C2_Witness ==
  /\ op = "castVote"
  /\ Has(everSucceeded, args.voterId)
  /\ args.candidateId \in DOMAIN votes
  /\ calls = OnError("Voter has already voted")

(* C3: castVote reports the first failing check of: voter not registered,  *)
(* candidate not a key of the votes object, voter already voted; it        *)
(* invokes onSuccess only when all three pass.                             *)
C3_CheckOrder ==
  [][ op' = "castVote" =>
        IF ~Has(registered, args'.voterId)
          THEN calls' = OnError("Voter not registered")
        ELSE IF args'.candidateId \notin DOMAIN votes
          THEN calls' = OnError("Candidate does not exist")
        ELSE IF Has(votersWhoVoted, args'.voterId)
          THEN calls' = OnError("Voter has already voted")
        ELSE /\ Len(calls') = 1
             /\ calls'[1].handler = "onSuccess" ]_vars

(* A voter who has voted names an unknown candidate: two checks fail and   *)
(* the candidate check is the one reported.                                *)
C3_Witness ==
  /\ op = "castVote"
  /\ Has(votersWhoVoted, args.voterId)
  /\ args.candidateId \notin DOMAIN votes
  /\ calls = OnError("Candidate does not exist")

(* C4: a castVote that ends in onError leaves votes, votersWhoVoted and    *)
(* registered as they were, and a castVote for an unregistered voter id    *)
(* always ends in onError("Voter not registered").                         *)
C4_ErrorKeepsState ==
  [][ op' = "castVote" =>
        /\ ~Has(registered, args'.voterId)
             => calls' = OnError("Voter not registered")
        /\ (\E i \in 1..Len(calls') : calls'[i].handler = "onError")
             => UNCHANGED session ]_vars

(* An unregistered voter id is turned away from a known candidate while    *)
(* votes are on record.                                                    *)
C4_Witness ==
  /\ op = "castVote"
  /\ calls = OnError("Voter not registered")
  /\ votersWhoVoted # {}
  /\ args.candidateId \in DOMAIN votes

(* The voter argument is an object with a string id, a string name and a   *)
(* numeric age of 18 or more.                                              *)
WellFormed(voter) ==
  /\ voter.kind = "object"
  /\ voter.id.t = "string"
  /\ voter.name.t = "string"
  /\ voter.age.t = "number"
  /\ voter.age.n >= 18

(* C5 as stated: registerVoter returns true and adds voter.id to           *)
(* registered exactly when voter is an object with a string id, a string   *)
(* name, a numeric age >= 18 and an id not yet registered; for every other *)
(* input it returns false and leaves the session as it was.                *)
C5_RegisterIff ==
  [][ op' = "registerVoter" =>
        LET voter == args'.voter
            ok == WellFormed(voter) /\ voter.id.s \notin registered
        IN /\ ret'.b <=> ok
           /\ ok => /\ registered' = registered \cup {voter.id.s}
                    /\ UNCHANGED <<candidates, votes, votersWhoVoted>>
           /\ ~ok => UNCHANGED session ]_vars

(* C6: registerVoter returns true at most once per voter id: a well-formed *)
(* voter of age >= 18 with a fresh id is accepted, and once a call for an  *)
(* id has returned true every later call carrying that id returns false.   *)
C6_TrueAtMostOnce ==
  [][ op' = "registerVoter" =>
        LET voter == args'.voter
        IN /\ (WellFormed(voter) /\ voter.id.s \notin registered) => ret'.b
           /\ (voter.kind = "object" /\ voter.id.t = "string"
                 /\ trueReturns[voter.id.s] > 0) => ~ret'.b
           /\ \A id \in VoterIdStrings : trueReturns'[id] <= 1 ]_vars

(* A voter who registered and then voted tries to register again. *)
C6_Witness ==
  /\ op = "registerVoter"
  /\ WellFormed(args.voter)
  /\ args.voter.id.s \in votersWhoVoted
  /\ trueReturns[args.voter.id.s] = 1
  /\ ~ret.b

(* C7: every castVote invokes exactly one handler exactly once and returns *)
(* what that handler returned (nothing when the handler was not supplied); *)
(* on success the handler is given the receipt of the call; and the effect *)
(* on the session is the one the call has with both handlers supplied.     *)
C7_OneHandler ==
  [][ op' = "castVote" =>
        LET both == castVote(votes, registered, votersWhoVoted, args'.voterId,
                             args'.candidateId, "identity", "identity")
            h == calls'[1].handler
            picked == IF h = "onSuccess" THEN args'.onSuccess ELSE args'.onError
        IN /\ Len(calls') = 1
           /\ h \in {"onSuccess", "onError"}
           /\ h = both.calls[1].handler
           /\ ret'.t = (IF picked = "none" THEN "undefined" ELSE calls'[1].arg.t)
           /\ picked # "none" => ret' = calls'[1].arg
           /\ h = "onSuccess" =>
                calls'[1].arg = Receipt(args'.voterId, args'.candidateId)
           /\ votes' = both.votes
           /\ votersWhoVoted' = both.votersWhoVoted
           /\ UNCHANGED <<candidates, registered>> ]_vars

(* A vote is recorded by a call that supplied no onSuccess handler. *)
C7_Witness ==
  /\ op = "castVote"
  /\ args.onSuccess = "none"
  /\ args.onError = "identity"
  /\ Len(calls) = 1
  /\ calls[1].handler = "onSuccess"
  /\ ret = Undefined
  /\ votes[args.candidateId] > 0

(* The count shown for the i-th element of the candidate list. *)
ShownCount(i) == CountOf(votes, candidates[i].id)

MaxShown ==
  CHOOSE m \in 0..Cardinality(VoterIdStrings) :
    /\ \E i \in 1..Len(candidates) : ShownCount(i) = m
    /\ \A i \in 1..Len(candidates) : ShownCount(i) <= m

(* First position of the candidate list holding the maximum count. *)
FirstMax ==
  CHOOSE i \in 1..Len(candidates) :
    /\ ShownCount(i) = MaxShown
    /\ \A j \in 1..(i - 1) : ShownCount(j) < MaxShown

SomePositive == \E i \in 1..Len(candidates) : ShownCount(i) > 0

(* The records of the candidate list, in list order. *)
Unsorted == [i \in 1..Len(candidates) |-> ResultRecord(votes, candidates[i])]

(* C8: when some candidate has a positive count, getWinner returns the     *)
(* record of the first candidate, in candidate-list order, among those     *)
(* holding the maximum count: the scan of the default-sorted results finds *)
(* the candidate a scan of the unsorted list finds, whatever getResults    *)
(* calls came before.                                                      *)
C8_FirstAmongTied ==
  (op = "getWinner" /\ SomePositive) =>
    /\ ret.t = "object"
    /\ ret.r = Unsorted[FirstMax]
    /\ ret = Scan(Unsorted, 1, -1, Null)

(* Two candidates tie for the maximum behind one with fewer votes. *)
C8_Witness ==
  /\ op = "getWinner"
  /\ \E i, j, k \in 1..Len(candidates) :
       /\ i < j /\ j < k
       /\ ShownCount(i) < ShownCount(j)
       /\ ShownCount(j) = ShownCount(k)
       /\ ShownCount(j) = MaxShown
       /\ candidates[j].id # candidates[k].id

(* C9: getWinner returns null exactly when the candidate list is empty or  *)
(* every candidate has zero votes, which is exactly when votersWhoVoted is *)
(* empty; any record it returns has a positive count.                      *)
C9_NullIffNoVotes ==
  op = "getWinner" =>
    /\ ret.t \in {"null", "object"}
    /\ ret.t = "null" <=>
         (Len(candidates) = 0 \/ \A i \in 1..Len(candidates) : ShownCount(i) = 0)
    /\ ret.t = "null" <=> votersWhoVoted = {}
    /\ ret.t = "object" => ret.r.votes > 0

(* No winner on a session with candidates and registered voters but no     *)
(* vote cast.                                                              *)
C9_Witness ==
  /\ op = "getWinner"
  /\ ret.t = "null"
  /\ DOMAIN votes # {}
  /\ registered # {}

Orderings(n) ==
  { p \in [1..n -> 1..n] : \A i, j \in 1..n : p[i] = p[j] => i = j }

(* C10: getResults without a comparator returns one record per element of  *)
(* the candidate list, carrying that candidate's id, name, party and       *)
(* current count (0 when the votes object has none), ordered by votes      *)
(* descending with equal votes kept in candidate-list order.               *)
C10_DefaultOrder ==
  (op = "getResults" /\ args.sortFn = "undefined") =>
    /\ ret.t = "array"
    /\ Len(ret.a) = Len(candidates)
    /\ \E p \in Orderings(Len(candidates)) :
         /\ \A k \in 1..Len(candidates) : ret.a[k] = Unsorted[p[k]]
         /\ \A k, l \in 1..Len(candidates) :
              k < l => \/ ret.a[k].votes > ret.a[l].votes
                       \/ /\ ret.a[k].votes = ret.a[l].votes
                          /\ p[k] < p[l]

(* A result in which the sort moved a candidate forward and kept two tied  *)
(* candidates in list order.                                               *)
C10_Witness ==
  /\ op = "getResults"
  /\ args.sortFn = "undefined"
  /\ Len(ret.a) = 3
  /\ ret.a # Unsorted
  /\ \E k \in 1..2 : ret.a[k].votes = ret.a[k + 1].votes

(* The ids handed to createElection, and those of them that are truthy. *)
GivenIds == { candidates[i].id : i \in 1..Len(candidates) }
TruthyIds == GivenIds \ {""}

(* C15 as stated: the key set of the votes object equals the set of        *)
(* candidate ids given at construction.                                    *)
C15_Original == DOMAIN votes = GivenIds

(* C15 amended: the key set of the votes object equals the set of truthy   *)
(* (non-empty) candidate ids given at construction and is the same in      *)
(* every reachable state; no call adds or removes a key, and every count   *)
(* is a non-negative integer.                                              *)
C15_KeysFixed ==
  /\ [](/\ DOMAIN votes = TruthyIds
        /\ \A k \in DOMAIN votes : votes[k] \in Nat)
  /\ [][/\ candidates' = candidates
        /\ DOMAIN votes' = DOMAIN votes]_vars

(* A registered voter who has not voted names an id that is no key, with   *)
(* votes already on record.                                                *)
C15_Witness ==
  /\ op = "castVote"
  /\ Has(registered, args.voterId)
  /\ ~Has(votersWhoVoted, args.voterId)
  /\ args.candidateId \notin DOMAIN votes
  /\ calls = OnError("Candidate does not exist")
  /\ votersWhoVoted # {}

(* C16: in every reachable state votersWhoVoted is a subset of registered. *)
C16_VotedAreRegistered == votersWhoVoted \subseteq registered

(* An unregistered voter is turned away from a known candidate after       *)
(* the only registered voter has voted.                                    *)
C16_Witness ==
  /\ op = "castVote"
  /\ args.voterId.t = "string"
  /\ ~Has(registered, args.voterId)
  /\ args.candidateId \in DOMAIN votes
  /\ votersWhoVoted = registered
  /\ Cardinality(registered) = 1

(* What a comparator supplied by the caller returns for two records. *)
Rates(sortFn, a, b) ==
  IF sortFn = "votesAsc" THEN a.votes - b.votes
  ELSE PartyRank(a.party) - PartyRank(b.party)

(* C17: getResults with a comparator function returns the records of the   *)
(* default call (one per candidate-list element, same votes) as a          *)
(* permutation ordered by the comparator, records it rates equal kept in   *)
(* candidate-list order; the descending-by-votes order is used exactly     *)
(* when sortFn is not a function.                                          *)
C17_CustomOrder ==
  op = "getResults" =>
    /\ Len(ret.a) = Len(candidates)
    /\ \E p \in Orderings(Len(candidates)) :
         /\ \A k \in 1..Len(candidates) : ret.a[k] = Unsorted[p[k]]
         /\ \A k, l \in 1..Len(candidates) :
              k < l =>
                IF args.sortFn \in {"votesAsc", "byParty"}
                THEN \/ Rates(args.sortFn, ret.a[k], ret.a[l]) < 0
                     \/ /\ Rates(args.sortFn, ret.a[k], ret.a[l]) = 0
                        /\ p[k] < p[l]
                ELSE \/ ret.a[k].votes > ret.a[l].votes
                     \/ /\ ret.a[k].votes = ret.a[l].votes
                        /\ p[k] < p[l]

(* Sorted by party: the order differs from both the list order and the     *)
(* default order, and two records of one party stay in list order.         *)
C17_Witness ==
  /\ op = "getResults"
  /\ args.sortFn = "byParty"
  /\ Len(ret.a) = 3
  /\ ret.a # Unsorted
  /\ ret.a # getResults(candidates, votes, "undefined")
  /\ \E k \in 1..2 : ret.a[k].party = ret.a[k + 1].party

(* The records of a result array, as a set. *)
Records(a) == { a[k] : k \in 1..Len(a) }

(* C18: getResults and getWinner leave votes, registered and               *)
(* votersWhoVoted as they are and report the counts the votes object holds *)
(* at the call: a query that follows another query agrees with it, and a   *)
(* query that follows a successful castVote shows the raised count.        *)
C18_PureQueries ==
  [][ op' \in {"getResults", "getWinner"} =>
        /\ UNCHANGED session
        /\ op' = "getResults" =>
             \A k \in 1..Len(ret'.a) :
               ret'.a[k].votes = CountOf(votes, ret'.a[k].id)
        /\ (op' = "getWinner" /\ ret'.t = "object") =>
             ret'.r.votes = CountOf(votes, ret'.r.id)
        /\ (op = "getResults" /\ op' = "getResults") =>
             Records(ret'.a) = Records(ret.a)
        /\ (op = "getResults" /\ args.sortFn = "undefined" /\ op' = "getWinner") =>
             IF ret'.t = "object" THEN ret'.r = ret.a[1]
             ELSE \A k \in 1..Len(ret.a) : ret.a[k].votes = 0
        /\ (op = "getWinner" /\ ret.t = "object" /\ op' = "getResults") =>
             ret.r \in Records(ret'.a)
        /\ (op = "castVote" /\ calls[1].handler = "onSuccess"
              /\ op' = "getResults") =>
             \E k \in 1..Len(ret'.a) :
               /\ ret'.a[k].id = args.candidateId
               /\ ret'.a[k].votes = votes[args.candidateId]
               /\ ret'.a[k].votes >= 1 ]_vars

(* A query made after two votes shows a count of two. *)
C18_Witness ==
  /\ op = "getResults"
  /\ args.sortFn = "votesAsc"
  /\ \E k \in 1..Len(ret.a) : ret.a[k].votes = 2

(* Two positions of the candidate list that carry the same truthy id. *)
RepeatedId(i, j) ==
  /\ i \in 1..Len(candidates) /\ j \in 1..Len(candidates)
  /\ i < j
  /\ candidates[i].id = candidates[j].id
  /\ candidates[i].id # ""

(* C19: when the candidate list carries an id twice, the votes object      *)
(* holds one count for it, 0 at construction; getResults still returns one *)
(* record per list element, both carriers appear and both show that one    *)
(* count, so a vote for the id raises the votes shown on both.             *)
C19_RepeatedIdSharesCount ==
  /\ [](op = "createElection" => \A k \in DOMAIN votes : votes[k] = 0)
  /\ [][ \A i, j \in 1..Len(candidates) :
           (op' = "getResults" /\ RepeatedId(i, j)) =>
             /\ candidates[i].id \in DOMAIN votes
             /\ Len(ret'.a) = Len(candidates)
             /\ \E k, l \in 1..Len(ret'.a) :
                  /\ k # l
                  /\ ret'.a[k].name = candidates[i].name
                  /\ ret'.a[l].name = candidates[j].name
                  /\ ret'.a[k].id = candidates[i].id
                  /\ ret'.a[l].id = candidates[i].id
                  /\ ret'.a[k].votes = votes[candidates[i].id]
                  /\ ret'.a[l].votes = votes[candidates[i].id]
                  /\ (op = "castVote" /\ calls[1].handler = "onSuccess"
                        /\ args.candidateId = candidates[i].id)
                       => ret'.a[k].votes >= 1 ]_vars

(* Results of a session whose list carries "C1" twice, after a vote for it. *)
C19_Witness ==
  /\ op = "getResults"
  /\ \E i, j \in 1..Len(candidates) : RepeatedId(i, j)
  /\ votes["C1"] >= 1
  /\ \E k, l \in 1..Len(ret.a) :
       k # l /\ ret.a[k].id = "C1" /\ ret.a[l].id = "C1" /\ ret.a[k].votes >= 1

(* C20: a successful castVote(V, C) raises the count of C by exactly 1,    *)
(* leaves every other count as it is, adds V and only V to votersWhoVoted  *)
(* and leaves registered as it is; over any sequence of calls no count     *)
(* decreases and neither set loses a member.                               *)
C20_SuccessEffect ==
  [][ /\ (op' = "castVote" /\ calls'[1].handler = "onSuccess") =>
           /\ DOMAIN votes' = DOMAIN votes
           /\ votes'[args'.candidateId] = votes[args'.candidateId] + 1
           /\ \A k \in DOMAIN votes \ {args'.candidateId} : votes'[k] = votes[k]
           /\ args'.voterId.s \notin votersWhoVoted
           /\ votersWhoVoted' = votersWhoVoted \cup {args'.voterId.s}
           /\ registered' = registered
      /\ \A k \in DOMAIN votes : k \in DOMAIN votes' /\ votes'[k] >= votes[k]
      /\ registered \subseteq registered'
      /\ votersWhoVoted \subseteq votersWhoVoted' ]_vars

(* The second vote for one candidate, with another candidate left at 0. *)
C20_Witness ==
  /\ op = "castVote"
  /\ calls[1].handler = "onSuccess"
  /\ votes[args.candidateId] = 2
  /\ \E k \in DOMAIN votes : votes[k] = 0

----------------------------------------------------------------------------
(* The three functions exported next to createElection work on their       *)
(* arguments alone.  Each gets a specification of its own that draws the   *)
(* arguments in its initial state and applies the function; the session    *)
(* variables stay at those of an election without candidates.              *)

NoSession ==
  /\ candidates = <<>>
  /\ votes = createElection([isArray |-> FALSE, items |-> <<>>]).votes
  /\ registered = {}
  /\ votersWhoVoted = {}
  /\ calls = <<>>
  /\ everSucceeded = {}
  /\ trueReturns = [id \in VoterIdStrings |-> 0]

SessionUntouched ==
  UNCHANGED <<session, calls, everSucceeded, trueReturns>>

----------------------------------------------------------------------------
(* tallyPure(currentTally, candidateId)                                    *)

(* Highest count in a tally handed to tallyPure. *)
MaxCount == 2

(* Calls made on one and the same tally object. *)
MaxCalls == 2

EmptyMap == [k \in {} |-> 0]

TallyKeys == {"a", "b"}

TallyMaps == UNION { [D -> 0..MaxCount] : D \in SUBSET TallyKeys }

(* The currentTally argument: a plain object, or null, undefined, a number *)
(* or a string.                                                            *)
TallyInputs ==
  { [t |-> "object", m |-> m] : m \in TallyMaps }
  \cup { [t |-> k, m |-> EmptyMap] : k \in {"null", "undefined", "number", "string"} }

(* The candidateId argument: a key of the tally, a new key, a number, null *)
(* or undefined.                                                           *)
TallyCandidateIds == {Str("a"), Str("x"), Num(7), Null, Undefined}

(* [candidateId]: the property key a value is turned into. *)
PropertyKey(id) == IF id.t = "string" THEN id.s ELSE ToString(id.n)

(* Seeded fault: the count is raised in the object passed in, which is     *)
(* then returned.                                                          *)
tallyPure_inPlace(currentTally, candidateId) ==
  IF TypeOf(currentTally) # "object" \/ candidateId.t \in {"null", "undefined"}
  THEN [t |-> "return", v |-> EmptyMap, input |-> currentTally]
  ELSE IF currentTally.t = "null"
  THEN [t |-> "throw", v |-> EmptyMap, input |-> currentTally]
  ELSE LET key == PropertyKey(candidateId)
           raised == [k \in DOMAIN currentTally.m \cup {key} |->
                        IF k = key THEN CountOf(currentTally.m, key) + 1
                        ELSE currentTally.m[k]]
       IN [t |-> "return", v |-> raised,
           input |-> [currentTally EXCEPT !.m = raised]]

(* The outcome of a call: the value returned, or a TypeError thrown when   *)
(* currentTally[candidateId] is read on null (typeof null is "object"),    *)
(* and the object passed in as the call leaves it.                         *)
tallyPure(currentTally, candidateId) ==
  IF TypeOf(currentTally) # "object" \/ candidateId.t \in {"null", "undefined"}
  THEN [t |-> "return", v |-> EmptyMap, input |-> currentTally]
  ELSE IF currentTally.t = "null"
  THEN [t |-> "throw", v |-> EmptyMap, input |-> currentTally]
  ELSE LET key == PropertyKey(candidateId)
       IN [t |-> "return",
           v |-> [k \in DOMAIN currentTally.m \cup {key} |->
                    IF k = key THEN CountOf(currentTally.m, key) + 1
                    ELSE currentTally.m[k]],
           input |-> currentTally]

InitTally ==
  /\ NoSession
  /\ op = "input"
  /\ \E tally \in TallyInputs, id \in TallyCandidateIds :
       args = [given |-> tally, currentTally |-> tally, candidateId |-> id, n |-> 0]
  /\ ret = Undefined

(* One call; the next call is given the same object again. *)
TallyPure ==
  /\ args.n < MaxCalls
  /\ LET r == tallyPure(args.currentTally, args.candidateId)
     IN /\ op' = "tallyPure"
        /\ args' = [args EXCEPT !.currentTally = r.input, !.n = @ + 1]
        /\ ret' = [t |-> r.t, v |-> r.v]
  /\ SessionUntouched

NextTally == TallyPure

SpecTally == InitTally /\ [][NextTally]_vars

(* C11: for an object tally and a present candidateId, tallyPure returns a *)
(* mapping that equals currentTally on every other key and maps            *)
(* candidateId to its previous count plus one (an absent key counting as   *)
(* 0); the object passed in has the same keys and values after the call as *)
(* before; and a second call on the same object returns the same result.   *)
C11_NewTally ==
  [][ (op' = "tallyPure" /\ args'.given.t = "object"
         /\ args'.candidateId.t \in {"string", "number"}) =>
        LET given == args'.given.m
            key == PropertyKey(args'.candidateId)
        IN /\ ret'.t = "return"
           /\ DOMAIN ret'.v = DOMAIN given \cup {key}
           /\ ret'.v[key] = (IF key \in DOMAIN given THEN given[key] ELSE 0) + 1
           /\ \A k \in DOMAIN given \ {key} : ret'.v[k] = given[k]
           /\ args'.currentTally = args'.given
           /\ op = "tallyPure" => ret' = ret ]_vars

(* The second call on {a: 1, b: ...} for "a" has returned a: 2 again. *)
C11_Witness ==
  /\ op = "tallyPure"
  /\ args.n = 2
  /\ args.given.t = "object"
  /\ DOMAIN args.given.m = {"a", "b"}
  /\ args.given.m["a"] = 1
  /\ args.candidateId = Str("a")
  /\ ret.v["a"] = 2

(* C12 as stated: for a currentTally that is not an object-like mapping    *)
(* (null, undefined, a number, a string) and for an absent candidateId     *)
(* (null, undefined), tallyPure returns an empty mapping and signals no    *)
(* error.                                                                  *)
C12_FailsSafe ==
  (op = "tallyPure"
     /\ (args.given.t # "object" \/ args.candidateId.t \in {"null", "undefined"})) =>
    /\ ret.t = "return"
    /\ ret.v = EmptyMap

----------------------------------------------------------------------------
(* countVotesInRegions(regionTree)                                         *)

(* Most nodes in a region tree handed to countVotesInRegions. *)
MaxNodes == 3

(* The votes property of a region: a number, or something else. *)
RegionVotes == {Num(1), Num(2), Str("many")}

(* A region object.  isArray tells whether its subRegions property is an   *)
(* array; subs is what the property holds.                                 *)
Region(v, isArray, subs) ==
  [kind |-> "object", votes |-> v, isArray |-> isArray, subs |-> subs]

(* null, or a number, where a region is expected. *)
NullRegion == [kind |-> "null", votes |-> Undefined, isArray |-> FALSE, subs |-> <<>>]
NumberRegion == [kind |-> "number", votes |-> Undefined, isArray |-> FALSE, subs |-> <<>>]

(* The finite trees of n nodes: a region without subRegions, with an array *)
(* of sub-regions, or with a single region object in place of the array.   *)
RECURSIVE RegionsOfSize(_)
RECURSIVE ForestsOfSize(_)
RegionsOfSize(n) ==
  (IF n = 1
   THEN {NullRegion, NumberRegion} \cup { Region(v, FALSE, <<>>) : v \in RegionVotes }
   ELSE {})
  \cup (IF n = 2
        THEN { Region(v, FALSE, << Region(Num(2), FALSE, <<>>) >>) : v \in RegionVotes }
        ELSE {})
  \cup { Region(v, TRUE, f) : v \in RegionVotes, f \in ForestsOfSize(n - 1) }

ForestsOfSize(k) ==
  IF k = 0 THEN { <<>> }
  ELSE UNION { { <<r>> \o f : r \in RegionsOfSize(j), f \in ForestsOfSize(k - j) } :
               j \in 1..k }

RegionInputs == UNION { RegionsOfSize(n) : n \in 1..MaxNodes }

(* typeof regionTree.votes === "number" ? regionTree.votes : 0 *)
OwnVotes(region) == IF TypeOf(region.votes) = "number" THEN region.votes.n ELSE 0

(* Seeded fault: the sub-regions are not descended into, only their own    *)
(* votes are added.                                                        *)
countVotesInRegions_shallow(regionTree) ==
  IF regionTree.kind # "object" THEN 0
  ELSE LET subs == IF regionTree.isArray THEN regionTree.subs ELSE <<>>
           own == [i \in 1..Len(subs) |->
                     IF subs[i].kind = "object" THEN OwnVotes(subs[i]) ELSE 0]
       IN OwnVotes(regionTree) + SumOver(own, DOMAIN own)

RECURSIVE countVotesInRegions(_)
RECURSIVE AddSubRegions(_, _, _)

(* for (const sub of regionTree.subRegions) total += countVotesInRegions(sub) *)
AddSubRegions(subs, i, total) ==
  IF i > Len(subs) THEN total
  ELSE AddSubRegions(subs, i + 1, total + countVotesInRegions(subs[i]))

countVotesInRegions(regionTree) ==
  IF regionTree.kind # "object" THEN 0
  ELSE IF regionTree.isArray
    THEN AddSubRegions(regionTree.subs, 1, OwnVotes(regionTree))
    ELSE OwnVotes(regionTree)

InitRegions ==
  /\ NoSession
  /\ op = "input"
  /\ \E tree \in RegionInputs : args = [regionTree |-> tree]
  /\ ret = Undefined

CountVotesInRegions ==
  /\ op = "input"
  /\ op' = "countVotesInRegions"
  /\ args' = args
  /\ ret' = Num(countVotesInRegions(args.regionTree))
  /\ SessionUntouched

NextRegions == CountVotesInRegions

SpecRegions == InitRegions /\ [][NextRegions]_vars

(* The nodes of a tree level by level: the elements of the subRegions      *)
(* arrays of the region objects of the level above.                        *)
RECURSIVE Below(_)
Below(level) ==
  IF level = <<>> THEN <<>>
  ELSE (IF level[1].kind = "object" /\ level[1].isArray THEN level[1].subs ELSE <<>>)
       \o Below(Tail(level))

RECURSIVE LevelOf(_, _)
LevelOf(tree, d) == IF d = 0 THEN <<tree>> ELSE Below(LevelOf(tree, d - 1))

LevelVotes(level) ==
  LET own == [i \in 1..Len(level) |->
                IF level[i].kind = "object" /\ level[i].votes.t = "number"
                THEN level[i].votes.n ELSE 0]
  IN SumOver(own, DOMAIN own)

SumOfNumericVotes(tree) ==
  LET perLevel == [d \in 0..MaxNodes |-> LevelVotes(LevelOf(tree, d))]
  IN SumOver(perLevel, DOMAIN perLevel)

(* C13: for a finite tree countVotesInRegions returns the sum of the       *)
(* numeric votes of the root and of every node reachable through           *)
(* subRegions arrays, a node whose votes is not a number counting 0 and a  *)
(* node whose subRegions is not an array being a leaf; it returns 0 for    *)
(* null and for a non-object.                                              *)
C13_SumOfTree ==
  op = "countVotesInRegions" =>
    /\ ret.t = "number"
    /\ ret.n = SumOfNumericVotes(args.regionTree)
    /\ args.regionTree.kind # "object" => ret.n = 0

(* A tree three levels deep whose root has no numeric votes. *)
C13_Witness ==
  /\ op = "countVotesInRegions"
  /\ args.regionTree.votes = Str("many")
  /\ Len(LevelOf(args.regionTree, 2)) > 0
  /\ ret.n = 3

----------------------------------------------------------------------------
(* createVoteValidator(rules)                                              *)

(* const { minAge = 18, requiredFields = ["id", "name", "age"] } = rules   *)
DefaultMinAge == 18
DefaultRequiredFields == <<"id", "name", "age">>

(* The rules argument: null, or an object with or without a minAge and     *)
(* with or without a requiredFields array.                                 *)
RulesInputs ==
  { [kind |-> "null", minAge |-> Undefined, hasFields |-> FALSE, fields |-> <<>>] }
  \cup
  { [kind |-> "object", minAge |-> a, hasFields |-> TRUE, fields |-> f] :
      a \in {Undefined, Num(21)}, f \in { <<"id", "age">>, <<"age", "name">>, <<>> } }
  \cup
  { [kind |-> "object", minAge |-> a, hasFields |-> FALSE, fields |-> <<>>] :
      a \in {Undefined, Num(21)} }

(* The voter argument of the validator: null, a primitive, or an object    *)
(* with some of the properties id, name and age; age is undefined when the *)
(* object has no age.                                                      *)
ValidatorVoters ==
  { [kind |-> k, own |-> {}, age |-> Undefined] : k \in {"null", "primitive"} }
  \cup
  { [kind |-> "object", own |-> o, age |-> a] :
      o \in SUBSET {"id", "name"}, a \in {Undefined} }
  \cup
  { [kind |-> "object", own |-> o \cup {"age"}, age |-> a] :
      o \in SUBSET {"id", "name"}, a \in {Num(17), Num(19), Num(30)} }

(* What the factory closes over: whether the validator is the one that     *)
(* always answers { valid: false }, and minAge and requiredFields with     *)
(* their defaults filled in.                                               *)
createVoteValidator(rules) ==
  IF rules.kind # "object"
  THEN [degenerate |-> TRUE, minAge |-> DefaultMinAge, requiredFields |-> <<>>]
  ELSE [degenerate |-> FALSE,
        minAge |-> IF rules.minAge.t = "undefined" THEN DefaultMinAge ELSE rules.minAge.n,
        requiredFields |-> IF rules.hasFields THEN rules.fields
                           ELSE DefaultRequiredFields]

Verdict(valid, reason) == [t |-> "return", valid |-> valid, reason |-> reason]

(* for (const field of requiredFields) if (!voter.hasOwnProperty(field)) ... *)
RECURSIVE MissingField(_, _, _)
MissingField(requiredFields, i, voter) ==
  IF i > Len(requiredFields) THEN ""
  ELSE IF requiredFields[i] \notin voter.own THEN requiredFields[i]
  ELSE MissingField(requiredFields, i + 1, voter)

(* voter.age < minAge: false when age is undefined. *)
BelowAge(voter, minAge) == NumLess(voter.age, minAge)

(* Seeded fault: the age is tested before the required fields. *)
validator_ageFirst(closure, voter) ==
  IF closure.degenerate THEN Verdict(FALSE, Undefined)
  ELSE IF voter.kind # "object" THEN Verdict(FALSE, Str("Invalid voter object"))
  ELSE IF BelowAge(voter, closure.minAge)
    THEN Verdict(FALSE, Str("Voter below minimum age " \o ToString(closure.minAge)))
  ELSE IF MissingField(closure.requiredFields, 1, voter) # ""
    THEN Verdict(FALSE, Str("Missing field: "
                            \o MissingField(closure.requiredFields, 1, voter)))
  ELSE Verdict(TRUE, Str(""))

(* The function the factory returns, applied to a voter. *)
validator(closure, voter) ==
  IF closure.degenerate THEN Verdict(FALSE, Undefined)
  ELSE IF voter.kind # "object" THEN Verdict(FALSE, Str("Invalid voter object"))
  ELSE IF MissingField(closure.requiredFields, 1, voter) # ""
    THEN Verdict(FALSE, Str("Missing field: "
                            \o MissingField(closure.requiredFields, 1, voter)))
  ELSE IF BelowAge(voter, closure.minAge)
    THEN Verdict(FALSE, Str("Voter below minimum age " \o ToString(closure.minAge)))
  ELSE Verdict(TRUE, Str(""))

InitValidator ==
  /\ NoSession
  /\ op = "input"
  /\ \E rules \in RulesInputs, voter \in ValidatorVoters :
       args = [rules |-> rules, voter |-> voter]
  /\ ret = Undefined

Validate ==
  /\ op = "input"
  /\ op' = "validator"
  /\ args' = args
  /\ ret' = validator(createVoteValidator(args.rules), args.voter)
  /\ SessionUntouched

NextValidator == Validate

SpecValidator == InitValidator /\ [][NextValidator]_vars

(* The fields and the age the rules ask for. *)
AskedFields(rules) ==
  IF rules.hasFields THEN rules.fields ELSE <<"id", "name", "age">>
AskedAge(rules) == IF rules.minAge.t = "number" THEN rules.minAge.n ELSE 18

(* Positions of the asked fields the voter does not have. *)
Lacking(rules, voter) ==
  { i \in 1..Len(AskedFields(rules)) : AskedFields(rules)[i] \notin voter.own }

(* C14: the validator made from a rules object reports the first failure   *)
(* of: voter not an object ("Invalid voter object"); the first field of    *)
(* requiredFields, in list order, the voter lacks ("Missing field: " and   *)
(* its name); voter.age < minAge ("Voter below minimum age " and minAge);  *)
(* and otherwise answers { valid: true, reason: "" }.  It always returns a *)
(* result with a boolean valid and never throws.                           *)
C14_ValidatorOrder ==
  op = "validator" =>
    /\ ret.t = "return"
    /\ ret.valid \in BOOLEAN
    /\ args.rules.kind = "object" =>
         LET rules == args.rules
             voter == args.voter
         IN IF voter.kind # "object"
              THEN ret = Verdict(FALSE, Str("Invalid voter object"))
            ELSE IF Lacking(rules, voter) # {}
              THEN LET first == CHOOSE i \in Lacking(rules, voter) :
                                  \A j \in Lacking(rules, voter) : i <= j
                   IN ret = Verdict(FALSE, Str("Missing field: "
                                               \o AskedFields(rules)[first]))
            ELSE IF voter.age.t = "number" /\ voter.age.n < AskedAge(rules)
              THEN ret = Verdict(FALSE, Str("Voter below minimum age "
                                            \o ToString(AskedAge(rules))))
            ELSE ret = Verdict(TRUE, Str(""))

(* minAge 21 and requiredFields ["id", "age"]: a voter of 19 without an id *)
(* is told about the id, not about the age.                                *)
C14_Witness ==
  /\ op = "validator"
  /\ args.rules.minAge = Num(21)
  /\ args.rules.hasFields /\ args.rules.fields = <<"id", "age">>
  /\ args.voter.kind = "object"
  /\ args.voter.own = {"age"}
  /\ args.voter.age = Num(19)
  /\ ret = Verdict(FALSE, Str("Missing field: id"))

====
